---- MODULE Spec2Model ----
(***************************************************************************)
(* Model of the cloudpork-agent analysis pipeline:                         *)
(*   internal/analyzer (Analyzer.Analyze, preflightChecks, postProcess),   *)
(*   internal/claude   (Client.Analyze, the four passes, the extractors),  *)
(*   internal/types    (CodeAnalysis, ResourceMetrics).                    *)
(*                                                                         *)
(* Text returned by the external tool is a sequence of tokens: words,      *)
(* numbers and line breaks.  Substring search (strings.Contains) and the   *)
(* regular expressions of the extractors are computed over those tokens.   *)
(* CPU cores (float64) are carried in hundredths of a core.                *)
(***************************************************************************)
EXTENDS Integers, Sequences, FiniteSets, TLC

(***************************************************************************)
(* Bounds of the model                                                     *)
(***************************************************************************)

\* Stand-in for a number beyond every threshold of the program.  As an
\* api_endpoints value it is math.MaxInt64, the largest value a JSON payload
\* can carry into an int; as a float it is the value of a digit string too
\* long for int64.  It is never used in arithmetic.
Huge == 2000000000

\* Largest number of changes of the environment (project directory removed
\* or restored, tool installed or uninstalled) during one run.
MaxEnvChanges == 2

\* Largest number of tokens of the generated tool outputs.
MaxTextLen == 3

(***************************************************************************)
(* Tokens                                                                  *)
(***************************************************************************)

\* a word: a maximal run of non-digit, non-blank characters
W(s) == [k |-> "w", s |-> s, n |-> 0, f |-> 0]
\* a run of digits that fits int64
N(n) == [k |-> "n", s |-> "", n |-> n, f |-> 0]
\* a decimal number n.ff (f in hundredths)
D(n, f) == [k |-> "d", s |-> "", n |-> n, f |-> f]
\* a run of digits too long for int64
H == [k |-> "h", s |-> "", n |-> 0, f |-> 0]
\* a line break
NL == [k |-> "nl", s |-> "", n |-> 0, f |-> 0]

IsNum(tok) == tok.k \in {"n", "d", "h"}

\* strings.ToLower on the words of the model's vocabulary
ToLower(s) ==
    CASE s = "Redis" -> "redis"
      [] s = "MB" -> "mb"
      [] s = "GB" -> "gb"
      [] s = "Mbps" -> "mbps"
      [] s = "CPU" -> "cpu"
      [] s = "Database" -> "database"
      [] s = "Complexity" -> "complexity"
      [] s = "Django" -> "django"
      [] s = "CRITICAL" -> "critical"
      [] s = "High" -> "high"
      [] s = "CDN" -> "cdn"
      [] OTHER -> s

\* strings.Title on the entries of the language and framework lists
Title(s) ==
    CASE s = "javascript" -> "Javascript"
      [] s = "python" -> "Python"
      [] s = "go" -> "Go"
      [] s = "java" -> "Java"
      [] s = "php" -> "Php"
      [] s = "ruby" -> "Ruby"
      [] s = "typescript" -> "Typescript"
      [] s = "react" -> "React"
      [] s = "vue" -> "Vue"
      [] s = "angular" -> "Angular"
      [] s = "express" -> "Express"
      [] s = "fastapi" -> "Fastapi"
      [] s = "django" -> "Django"
      [] s = "gin" -> "Gin"
      [] s = "echo" -> "Echo"
      [] OTHER -> s

\* The search keys of the program that occur as a substring of a lower-case
\* word of the model's vocabulary.
Subs(w) ==
    CASE w = "javascript" -> {"javascript", "java"}
      [] w = "typescript" -> {"typescript"}
      [] w = "python" -> {"python"}
      [] w = "go" -> {"go"}
      [] w = "java" -> {"java"}
      [] w = "django" -> {"django", "go"}
      [] w = "gin" -> {"gin"}
      [] w = "react" -> {"react"}
      [] w = "express" -> {"express"}
      [] w = "endpoints" -> {"endpoint"}
      [] w = "routes" -> {"route"}
      [] w = "api" -> {"api"}
      [] w = "database" -> {"database"}
      [] w = "queries" -> {}
      [] w = "query" -> {"query"}
      [] w = "complexity" -> {"complexity"}
      [] w = "score" -> {"score"}
      [] w = "redis" -> {"redis"}
      [] w = "memcached" -> {"memcached"}
      [] w = "cdn" -> {"cdn"}
      [] w = "memory" -> {"memory"}
      [] w = "cache" -> {"cache"}
      [] w = "browser" -> {"browser"}
      [] w = "leak" -> {"leak"}
      [] w = "slow" -> {"slow"}
      [] w = "bottleneck" -> {"bottleneck"}
      [] w = "limits" -> {"limit"}
      [] w = "critical" -> {"critical"}
      [] w = "high" -> {"high"}
      [] w = "medium" -> {"medium"}
      [] w = "mb" -> {"mb"}
      [] w = "mbps" -> {"mbps", "mb"}
      [] w = "gb" -> {"gb"}
      [] w = "cores" -> {"core"}
      [] w = "cpu" -> {"cpu"}
      [] w = "connections" -> {"connection", "conn"}
      [] w = "bandwidth" -> {"bandwidth"}
      [] w = "storage" -> {"storage"}
      [] w = "large" -> {"large"}
      [] w = "payload" -> {"payload"}
      [] w = "n+" -> {"n+"}
      [] w = "plus" -> {"plus"}
      [] OTHER -> {}

\* strings.Contains(strings.ToLower(text), key) for a key without blanks
Contains(text, key) ==
    \E i \in 1..Len(text) : text[i].k = "w" /\ key \in Subs(ToLower(text[i].s))

\* strings.Contains(strings.ToLower(text), "a b"): the words a and b next to
\* each other on one line (tokens of a line are separated by one blank)
ContainsPair(text, a, b) ==
    \E i \in 1..(Len(text) - 1) :
        /\ text[i].k = "w" /\ ToLower(text[i].s) = a
        /\ text[i + 1].k = "w" /\ ToLower(text[i + 1].s) = b

\* strings.Contains(strings.ToLower(text), "n+1"): the word "n+" written
\* directly before a number that starts with the digit 1
RECURSIVE LeadDigit(_)
LeadDigit(n) == IF n < 10 THEN n ELSE LeadDigit(n \div 10)

ContainsNPlus1(text) ==
    \E i \in 1..(Len(text) - 1) :
        /\ text[i].k = "w" /\ ToLower(text[i].s) = "n+"
        /\ text[i + 1].k \in {"n", "d"} /\ LeadDigit(text[i + 1].n) = 1

\* tokens i..j lie on one line: "." of the patterns does not match "\n"
SameLine(text, i, j) == \A m \in i..j : text[m].k # "nl"

Min(S) == CHOOSE x \in S : \A y \in S : x <= y

HasKey(tok, keys) == tok.k = "w" /\ (Subs(ToLower(tok.s)) \cap keys) # {}

(***************************************************************************)
(* Extractors (internal/claude)                                            *)
(***************************************************************************)

\* strconv.Atoi of the digits captured by (\d+): the integer part of a
\* number; a run of digits beyond int64 is a range error
Atoi(tok) == IF tok.k = "h" THEN [ok |-> FALSE, v |-> 0] ELSE [ok |-> TRUE, v |-> tok.n]

\* strconv.ParseFloat of the text captured by (\d+(?:\.\d+)?), in hundredths
ParseFloat(tok) ==
    IF tok.k = "h" THEN [ok |-> TRUE, v |-> Huge]
    ELSE [ok |-> TRUE, v |-> tok.n * 100 + tok.f]

\* positions where (?i)(\d+).*(?:k1|k2|...) matches: a number followed, on
\* the same line, by a word containing one of the keys
NumBeforeKey(text, keys) ==
    { i \in 1..Len(text) :
        /\ IsNum(text[i])
        /\ \E j \in (i + 1)..Len(text) : HasKey(text[j], keys) /\ SameLine(text, i, j) }

\* positions where (?i)(?:k1|k2).*?(\d+) matches: a word containing one of
\* the keys followed, on the same line, by a number
KeyBeforeNum(text, keys) ==
    { j \in 1..Len(text) :
        /\ HasKey(text[j], keys)
        /\ \E i \in (j + 1)..Len(text) : IsNum(text[i]) /\ SameLine(text, j, i) }

\* The patterns of the program.  alt is the second alternative of
\* `(\d+).*MB|(\d+).*memory`, whose number is captured by group 2.
Pattern(name) ==
    CASE name = "database" -> [kind |-> "num-key", keys |-> {"database", "query"}, alt |-> {}]
      [] name = "endpoint" -> [kind |-> "num-key", keys |-> {"endpoint", "route", "api"}, alt |-> {}]
      [] name = "memory" -> [kind |-> "num-key", keys |-> {"mb"}, alt |-> {"memory"}]
      [] name = "cpu" -> [kind |-> "num-key", keys |-> {"core", "cpu"}, alt |-> {}]
      [] name = "conn" -> [kind |-> "num-key", keys |-> {"connection", "conn"}, alt |-> {}]
      [] name = "network" -> [kind |-> "num-key", keys |-> {"mbps", "bandwidth"}, alt |-> {}]
      [] name = "storage" -> [kind |-> "num-key", keys |-> {"gb", "storage"}, alt |-> {}]
      [] name = "complexity-after" -> [kind |-> "key-num", keys |-> {"complexity", "score"}, alt |-> {}]
      [] name = "complexity-before" -> [kind |-> "num-key", keys |-> {"complexity", "score"}, alt |-> {}]

\* re.FindStringSubmatch(text): the leftmost match; matches[1] is the token
\* captured by group 1, or empty when the match went through the second
\* alternative.  found = FALSE when there is no match.
FindStringSubmatch(text, name) ==
    LET p == Pattern(name) IN
    IF p.kind = "key-num"
    THEN LET starts == KeyBeforeNum(text, p.keys) IN
         IF starts = {} THEN [found |-> FALSE, empty |-> TRUE, tok |-> NL]
         ELSE LET j == Min(starts)
                  i == Min({ m \in (j + 1)..Len(text) : IsNum(text[m]) })
              IN [found |-> TRUE, empty |-> FALSE, tok |-> text[i]]
    ELSE LET first == NumBeforeKey(text, p.keys)
             second == NumBeforeKey(text, p.alt)
             starts == first \cup second
         IN IF starts = {} THEN [found |-> FALSE, empty |-> TRUE, tok |-> NL]
            ELSE LET i == Min(starts)
                 IN [found |-> TRUE, empty |-> i \notin first, tok |-> text[i]]

\* extractNumber with -1 instead of 0 as the "not found" value
extractNumber_sentinel(text, pattern) ==
    LET matches == FindStringSubmatch(text, pattern) IN
    IF matches.found /\ ~matches.empty /\ Atoi(matches.tok).ok
    THEN Atoi(matches.tok).v
    ELSE -1

\* extractNumber: 0 when nothing matches or the capture is no int
extractNumber(text, pattern) ==
    LET matches == FindStringSubmatch(text, pattern) IN
    IF matches.found /\ ~matches.empty /\ Atoi(matches.tok).ok
    THEN Atoi(matches.tok).v
    ELSE 0

\* extractFloat: 0.0 when nothing matches
extractFloat(text, pattern) ==
    LET matches == FindStringSubmatch(text, pattern) IN
    IF matches.found /\ ~matches.empty /\ ParseFloat(matches.tok).ok
    THEN ParseFloat(matches.tok).v
    ELSE 0

\* extractComplexity without the upper limit
extractComplexity_unbounded(text) ==
    LET c1 == extractNumber(text, "complexity-after")
        complexity == IF c1 = 0 THEN extractNumber(text, "complexity-before") ELSE c1
    IN IF complexity = 0 THEN 50 ELSE complexity

extractComplexity(text) ==
    LET c1 == extractNumber(text, "complexity-after")
        complexity == IF c1 = 0 THEN extractNumber(text, "complexity-before") ELSE c1
    IN IF complexity = 0 \/ complexity > 100 THEN 50 ELSE complexity

\* the entries of vocabulary, in order, accepted by keep
RECURSIVE FilterSeq(_, _)
FilterSeq(vocabulary, keep) ==
    IF vocabulary = <<>> THEN <<>>
    ELSE (IF Head(vocabulary) \in keep THEN <<Head(vocabulary)>> ELSE <<>>)
         \o FilterSeq(Tail(vocabulary), keep)

\* cacheTypes in another order
cacheTypes_reordered == <<"cdn", "memcached", "memory cache", "redis", "browser cache">>

cacheTypes == <<"redis", "memcached", "memory cache", "cdn", "browser cache">>

extractCacheUsage(text) ==
    FilterSeq(cacheTypes,
        { c \in {"redis", "memcached", "cdn"} : Contains(text, c) }
        \cup (IF ContainsPair(text, "memory", "cache") THEN {"memory cache"} ELSE {})
        \cup (IF ContainsPair(text, "browser", "cache") THEN {"browser cache"} ELSE {}))

\* extractSeverity that looks for "high" first
extractSeverity_highFirst(text) ==
    IF Contains(text, "high") THEN "high"
    ELSE IF Contains(text, "critical") THEN "critical"
    ELSE IF Contains(text, "medium") THEN "medium"
    ELSE "low"

extractSeverity(text) ==
    IF Contains(text, "critical") THEN "critical"
    ELSE IF Contains(text, "high") THEN "high"
    ELSE IF Contains(text, "medium") THEN "medium"
    ELSE "low"

\* strings.Split(text, "\n")
RECURSIVE Split(_)
Split(text) ==
    IF \A i \in 1..Len(text) : text[i].k # "nl" THEN <<text>>
    ELSE LET b == Min({ i \in 1..Len(text) : text[i].k = "nl" })
         IN <<SubSeq(text, 1, b - 1)>> \o Split(SubSeq(text, b + 1, Len(text)))

\* lineBottlenecks whose memory rule asks for one of its two words only
lineBottlenecks_either(line) ==
    IF line = <<>> THEN <<>>
    ELSE (IF Contains(line, "database")
             /\ (Contains(line, "slow") \/ Contains(line, "bottleneck") \/ Contains(line, "limit"))
          THEN << [Type |-> "database", Description |-> line,
                   Severity |-> extractSeverity(line),
                   Impact |-> "May cause slow response times under load"] >>
          ELSE <<>>)
         \o
         (IF Contains(line, "memory") \/ Contains(line, "leak")
          THEN << [Type |-> "memory", Description |-> line, Severity |-> "high",
                   Impact |-> "Could cause application crashes"] >>
          ELSE <<>>)

\* the Bottleneck records of one line (body of the loop of extractBottlenecks)
lineBottlenecks(line) ==
    IF line = <<>> THEN <<>>
    ELSE (IF Contains(line, "database")
             /\ (Contains(line, "slow") \/ Contains(line, "bottleneck") \/ Contains(line, "limit"))
          THEN << [Type |-> "database", Description |-> line,
                   Severity |-> extractSeverity(line),
                   Impact |-> "May cause slow response times under load"] >>
          ELSE <<>>)
         \o
         (IF Contains(line, "memory") /\ Contains(line, "leak")
          THEN << [Type |-> "memory", Description |-> line, Severity |-> "high",
                   Impact |-> "Could cause application crashes"] >>
          ELSE <<>>)

RECURSIVE linesBottlenecks(_)
linesBottlenecks(lines) ==
    IF lines = <<>> THEN <<>>
    ELSE lineBottlenecks(Head(lines)) \o linesBottlenecks(Tail(lines))

extractBottlenecks(text) == linesBottlenecks(Split(text))

\* estimateMemoryFromComplexity with strict comparisons
estimateMemoryFromComplexity_strict(complexity) ==
    IF complexity > 80 THEN 2048
    ELSE IF complexity > 60 THEN 1024
    ELSE IF complexity > 40 THEN 512
    ELSE 256

estimateMemoryFromComplexity(complexity) ==
    IF complexity >= 80 THEN 2048
    ELSE IF complexity >= 60 THEN 1024
    ELSE IF complexity >= 40 THEN 512
    ELSE 256

\* in hundredths of a core
estimateCPUFromEndpoints(endpoints) ==
    IF endpoints >= 50 THEN 400
    ELSE IF endpoints >= 20 THEN 200
    ELSE IF endpoints >= 10 THEN 100
    ELSE 50

(***************************************************************************)
(* The Report (types.CodeAnalysis)                                         *)
(***************************************************************************)

\* the zero value of types.ResourceMetrics
ZeroResources ==
    [MemoryMB |-> 0, CPUCores |-> 0, DatabaseConns |-> 0, NetworkMbps |-> 0, StorageGB |-> 0]

\* &types.CodeAnalysis{ProjectID, Timestamp, Directory}: every other field
\* has its zero value
NewCodeAnalysis(projectID, dir) ==
    [ProjectID |-> projectID, Directory |-> dir,
     Language |-> "", Framework |-> "", Dependencies |-> <<>>,
     DatabaseCalls |-> 0, ApiEndpoints |-> 0, StatelessFuncs |-> 0,
     BackgroundJobs |-> <<>>, CacheUsage |-> <<>>, FileUploads |-> FALSE,
     ComplexityScore |-> 0, ScalingBottlenecks |-> <<>>,
     ResourceUsage |-> ZeroResources, EstimatedUsers |-> 0,
     SecurityIssues |-> <<>>,
     Performance |-> [HasNPlusOneQuery |-> FALSE, HasLargePayloads |-> FALSE]]

\* no Report (a nil *types.CodeAnalysis)
NoReport == [nil |-> TRUE]

(***************************************************************************)
(* The passes (internal/claude): the parsing of a returned output          *)
(***************************************************************************)

languages == <<"javascript", "python", "go", "java", "php", "ruby", "typescript">>
frameworks == <<"react", "vue", "angular", "express", "fastapi", "django", "gin", "echo">>

\* the first entry of list that occurs in the text, "" when none does
RECURSIVE FirstContained(_, _)
FirstContained(list, text) ==
    IF list = <<>> THEN ""
    ELSE IF Contains(text, Head(list)) THEN Head(list)
    ELSE FirstContained(Tail(list), text)

\* parseBasicStructureHeuristic without the default estimate of the
\* endpoint count
parseBasicStructureHeuristic_noDefault(text, analysis) ==
    LET lang == FirstContained(languages, text)
        framework == FirstContained(frameworks, text)
        n == extractNumber(text, "endpoint")
    IN [analysis EXCEPT
            !.Language = IF lang # "" THEN Title(lang) ELSE @,
            !.Framework = IF framework # "" THEN Title(framework) ELSE @,
            !.ApiEndpoints = n]

parseBasicStructureHeuristic(text, analysis) ==
    LET lang == FirstContained(languages, text)
        framework == FirstContained(frameworks, text)
        n == extractNumber(text, "endpoint")
    IN [analysis EXCEPT
            !.Language = IF lang # "" THEN Title(lang) ELSE @,
            !.Framework = IF framework # "" THEN Title(framework) ELSE @,
            !.ApiEndpoints = IF n = 0 THEN 5 ELSE n]

\* analyzeBasicStructure that applies the default of 5 endpoints to a
\* decoded payload too
analyzeBasicStructure_defaulted(analysis, output) ==
    IF output.json
    THEN [analysis EXCEPT
            !.Language = output.payload.language,
            !.Framework = output.payload.framework,
            !.Dependencies = output.payload.dependencies,
            !.ApiEndpoints = IF output.payload.api_endpoints = 0 THEN 5
                             ELSE output.payload.api_endpoints,
            !.BackgroundJobs = output.payload.background_jobs,
            !.FileUploads = output.payload.file_uploads]
    ELSE parseBasicStructureHeuristic(output.text, analysis)

\* output.json: json.Unmarshal of the output succeeds, with output.payload
\* the decoded struct (absent keys have their zero value)
analyzeBasicStructure(analysis, output) ==
    IF output.json
    THEN [analysis EXCEPT
            !.Language = output.payload.language,
            !.Framework = output.payload.framework,
            !.Dependencies = output.payload.dependencies,
            !.ApiEndpoints = output.payload.api_endpoints,
            !.BackgroundJobs = output.payload.background_jobs,
            !.FileUploads = output.payload.file_uploads]
    ELSE parseBasicStructureHeuristic(output.text, analysis)

analyzeDatabaseAndAPI(analysis, output) ==
    [analysis EXCEPT
        !.DatabaseCalls = extractNumber(output.text, "database"),
        !.ComplexityScore = extractComplexity(output.text),
        !.CacheUsage = extractCacheUsage(output.text),
        !.Performance.HasNPlusOneQuery =
            ContainsNPlus1(output.text)
            \/ \E i \in 1..(Len(output.text) - 2) :
                  /\ ToLower(output.text[i].s) = "n"
                  /\ ToLower(output.text[i + 1].s) = "plus"
                  /\ ToLower(output.text[i + 2].s) = "one"]

\* analyzePerformanceAndScaling that also sets the complexity score back
\* to its default
analyzePerformanceAndScaling_rescoring(analysis, output) ==
    [analysis EXCEPT
        !.ScalingBottlenecks = extractBottlenecks(output.text),
        !.Performance.HasLargePayloads = ContainsPair(output.text, "large", "payload"),
        !.ComplexityScore = 50]

analyzePerformanceAndScaling(analysis, output) ==
    [analysis EXCEPT
        !.ScalingBottlenecks = extractBottlenecks(output.text),
        !.Performance.HasLargePayloads = ContainsPair(output.text, "large", "payload")]

\* resourcePrompt that counts the dependencies instead of the jobs
resourcePrompt_dependencies(analysis) ==
    [Language |-> analysis.Language, Framework |-> analysis.Framework,
     ApiEndpoints |-> analysis.ApiEndpoints,
     BackgroundJobs |-> Len(analysis.Dependencies),
     ComplexityScore |-> analysis.ComplexityScore]

\* the values formatted into the instruction of the resource pass
resourcePrompt(analysis) ==
    [Language |-> analysis.Language, Framework |-> analysis.Framework,
     ApiEndpoints |-> analysis.ApiEndpoints,
     BackgroundJobs |-> Len(analysis.BackgroundJobs),
     ComplexityScore |-> analysis.ComplexityScore]

estimateResources(analysis, output) ==
    LET mem == extractNumber(output.text, "memory")
        cpu == extractFloat(output.text, "cpu")
    IN [analysis EXCEPT
        !.ResourceUsage =
            [MemoryMB |-> IF mem = 0
                          THEN estimateMemoryFromComplexity(analysis.ComplexityScore)
                          ELSE mem,
             CPUCores |-> IF cpu = 0
                          THEN estimateCPUFromEndpoints(analysis.ApiEndpoints)
                          ELSE cpu,
             DatabaseConns |-> extractNumber(output.text, "conn"),
             NetworkMbps |-> extractNumber(output.text, "network"),
             StorageGB |-> extractNumber(output.text, "storage")]]

(***************************************************************************)
(* The Normalizer (internal/analyzer)                                      *)
(***************************************************************************)

\* the builds of the Makefile
Archs == {"amd64", "arm64"}

\* int(f) for a float64 f outside the range of int64: the Go specification
\* leaves the value to the implementation; amd64 yields math.MinInt64,
\* arm64 saturates.  Huge and -Huge stand for the two.
convOutOfRange(arch, negative) ==
    IF arch = "amd64" THEN -Huge
    ELSE IF negative THEN -Huge ELSE Huge

\* estimateCurrentUsers without the lower bound of 100
estimateCurrentUsers_noFloor(analysis, arch) ==
    LET complexity == analysis.ComplexityScore
        endpointTenths == IF analysis.ApiEndpoints < 5 THEN 5 ELSE analysis.ApiEndpoints
        jobHalves == IF Len(analysis.BackgroundJobs) > 0 THEN 3 ELSE 2
        estimated ==
            IF endpointTenths >= Huge /\ complexity # 0
            THEN convOutOfRange(arch, complexity < 0)
            ELSE IF endpointTenths >= Huge THEN 0
            ELSE (1000 * complexity * endpointTenths * jobHalves) \div (50 * 10 * 2)
    IN IF estimated > 1000000 THEN 1000000 ELSE estimated

\* estimateCurrentUsers.  The multipliers are kept as fractions:
\* complexity/50, endpointMultiplier in tenths (at least 5), jobMultiplier in
\* halves; with api_endpoints = math.MaxInt64 the product is outside int64
\* for every complexity other than 0.
estimateCurrentUsers(analysis, arch) ==
    LET baseUsers == 1000
        complexity == analysis.ComplexityScore
        endpointTenths == IF analysis.ApiEndpoints < 5 THEN 5 ELSE analysis.ApiEndpoints
        jobHalves == IF Len(analysis.BackgroundJobs) > 0 THEN 3 ELSE 2
        estimated ==
            IF endpointTenths >= Huge /\ complexity # 0
            THEN convOutOfRange(arch, complexity < 0)
            ELSE IF endpointTenths >= Huge THEN 0
            ELSE (baseUsers * complexity * endpointTenths * jobHalves) \div (50 * 10 * 2)
    IN IF estimated < 100 THEN 100
       ELSE IF estimated > 1000000 THEN 1000000
       ELSE estimated

\* validateResourceEstimates without the upper bound of the bandwidth and
\* with the lower bound of memory applied to values below 0 only
validateResourceEstimates_loose(analysis) ==
    LET r == analysis.ResourceUsage
    IN [analysis EXCEPT !.ResourceUsage =
            [MemoryMB |-> IF r.MemoryMB < 0 THEN 128
                          ELSE IF r.MemoryMB > 16384 THEN 16384 ELSE r.MemoryMB,
             CPUCores |-> IF r.CPUCores < 10 THEN 10
                          ELSE IF r.CPUCores > 3200 THEN 3200 ELSE r.CPUCores,
             DatabaseConns |-> IF r.DatabaseConns < 1 THEN 1
                               ELSE IF r.DatabaseConns > 1000 THEN 1000 ELSE r.DatabaseConns,
             NetworkMbps |-> IF r.NetworkMbps < 1 THEN 1 ELSE r.NetworkMbps,
             StorageGB |-> IF r.StorageGB < 1 THEN 1
                           ELSE IF r.StorageGB > 10000 THEN 10000 ELSE r.StorageGB]]

\* validateResourceEstimates that replaces a zero memory and a zero CPU by
\* the values of the lookup tables before it clamps
validateResourceEstimates_lookup(analysis) ==
    LET r == analysis.ResourceUsage
        memory == IF r.MemoryMB = 0
                  THEN estimateMemoryFromComplexity(analysis.ComplexityScore)
                  ELSE r.MemoryMB
        cpu == IF r.CPUCores = 0 THEN estimateCPUFromEndpoints(analysis.ApiEndpoints)
               ELSE r.CPUCores
    IN [analysis EXCEPT !.ResourceUsage =
            [MemoryMB |-> IF memory < 128 THEN 128
                          ELSE IF memory > 16384 THEN 16384 ELSE memory,
             CPUCores |-> IF cpu < 10 THEN 10 ELSE IF cpu > 3200 THEN 3200 ELSE cpu,
             DatabaseConns |-> IF r.DatabaseConns < 1 THEN 1
                               ELSE IF r.DatabaseConns > 1000 THEN 1000 ELSE r.DatabaseConns,
             NetworkMbps |-> IF r.NetworkMbps < 1 THEN 1
                             ELSE IF r.NetworkMbps > 10000 THEN 10000 ELSE r.NetworkMbps,
             StorageGB |-> IF r.StorageGB < 1 THEN 1
                           ELSE IF r.StorageGB > 10000 THEN 10000 ELSE r.StorageGB]]

validateResourceEstimates(analysis) ==
    LET r == analysis.ResourceUsage
        clampMemory == IF r.MemoryMB < 128 THEN 128
                       ELSE IF r.MemoryMB > 16384 THEN 16384 ELSE r.MemoryMB
        clampCPU == IF r.CPUCores < 10 THEN 10
                    ELSE IF r.CPUCores > 3200 THEN 3200 ELSE r.CPUCores
        clampConns == IF r.DatabaseConns < 1 THEN 1
                      ELSE IF r.DatabaseConns > 1000 THEN 1000 ELSE r.DatabaseConns
        clampNetwork == IF r.NetworkMbps < 1 THEN 1
                        ELSE IF r.NetworkMbps > 10000 THEN 10000 ELSE r.NetworkMbps
        clampStorage == IF r.StorageGB < 1 THEN 1
                        ELSE IF r.StorageGB > 10000 THEN 10000 ELSE r.StorageGB
    IN [analysis EXCEPT !.ResourceUsage =
            [MemoryMB |-> clampMemory, CPUCores |-> clampCPU,
             DatabaseConns |-> clampConns, NetworkMbps |-> clampNetwork,
             StorageGB |-> clampStorage]]

\* postProcess without the default of the complexity score
postProcess_noComplexityDefault(analysis, arch) ==
    validateResourceEstimates(
        [analysis EXCEPT
            !.EstimatedUsers = estimateCurrentUsers(analysis, arch),
            !.Language = IF @ = "" THEN "Unknown" ELSE @,
            !.Framework = IF @ = "" THEN "Unknown" ELSE @])

\* postProcess with the default of the framework keyed on the language
postProcess_frameworkByLanguage(analysis, arch) ==
    validateResourceEstimates(
        [analysis EXCEPT
            !.EstimatedUsers = estimateCurrentUsers(analysis, arch),
            !.Language = IF @ = "" THEN "Unknown" ELSE @,
            !.Framework = IF analysis.Language = "" THEN "Unknown" ELSE @,
            !.ComplexityScore = IF @ = 0 THEN 50 ELSE @])

postProcess(analysis, arch) ==
    LET users == estimateCurrentUsers(analysis, arch)
    IN validateResourceEstimates(
        [analysis EXCEPT
            !.EstimatedUsers = users,
            !.Language = IF @ = "" THEN "Unknown" ELSE @,
            !.Framework = IF @ = "" THEN "Unknown" ELSE @,
            !.ComplexityScore = IF @ = 0 THEN 50 ELSE @])

(***************************************************************************)
(* Outputs of the external tool used by the model                          *)
(***************************************************************************)

NoPayload ==
    [language |-> "", framework |-> "", dependencies |-> <<>>, api_endpoints |-> 0,
     background_jobs |-> <<>>, file_uploads |-> FALSE]

\* an output that json.Unmarshal decodes into the struct of pass 1
Json(payload) == [json |-> TRUE, payload |-> payload, text |-> <<>>]
\* any other output
Text(text) == [json |-> FALSE, payload |-> NoPayload, text |-> text]

StructureOutputs ==
    { Json([language |-> "Go", framework |-> "Gin", dependencies |-> <<"gin", "viper">>,
            api_endpoints |-> 12, background_jobs |-> <<"emailer">>, file_uploads |-> TRUE]),
      Json(NoPayload),
      Json([NoPayload EXCEPT !.language = "Rust", !.api_endpoints = Huge]),
      Json([NoPayload EXCEPT !.framework = "Rails", !.api_endpoints = -3,
                             !.background_jobs = <<"mailer", "reports">>]),
      Json([NoPayload EXCEPT !.language = "Python", !.api_endpoints = 5000]),
      Text(<<>>),
      Text(<<W("hello"), W("world")>>),
      Text(<<W("javascript"), W("express"), W("with"), N(24), W("endpoints")>>),
      Text(<<H, W("routes"), NL, W("Django")>>) }

DatabaseOutputs ==
    { Text(<<>>),
      Text(<<W("found"), N(37), W("database"), W("calls"), W("and"), W("complexity"),
             W("score"), N(72), W("uses"), W("Redis"), W("for"), W("caching")>>),
      Text(<<W("Complexity"), N(150)>>),
      Text(<<N(100), W("score")>>),
      Text(<<N(85), W("complexity"), NL, W("n+"), N(1), W("query"), W("memory"), W("cache"),
             W("and"), W("CDN")>>),
      Text(<<W("score"), H>>),
      Text(<<W("complexity"), N(0), W("of"), N(100)>>),
      Text(<<W("complexity"), N(1), W("n"), W("plus"), W("one")>>) }

PerformanceOutputs ==
    { Text(<<>>),
      Text(<<W("Database"), W("connections"), W("limits"), W("CRITICAL"), NL, NL,
             W("memory"), W("leak")>>),
      Text(<<W("large"), W("payload"), W("medium"), W("database"), W("slow"),
             W("memory"), W("leak")>>),
      Text(<<W("the"), W("database"), W("is"), W("slow")>>) }

ResourceOutputs ==
    { Text(<<>>),
      Text(<<N(512), W("MB"), W("memory"), NL, D(2, 50), W("cores"), NL, N(50),
             W("connections"), NL, N(100), W("Mbps"), W("bandwidth"), NL, N(20), W("GB"),
             W("storage")>>),
      Text(<<N(99999), W("MB"), NL, N(64), W("cores"), NL, N(5000), W("connections"), NL,
             N(99999), W("Mbps"), NL, N(20000), W("GB")>>),
      Text(<<N(2048), W("memory"), NL, D(0, 5), W("CPU")>>),
      Text(<<H, W("cores"), W("and"), N(64), W("MB")>>) }

Outputs(p) ==
    CASE p = 1 -> StructureOutputs
      [] p = 2 -> DatabaseOutputs
      [] p = 3 -> PerformanceOutputs
      [] p = 4 -> ResourceOutputs

\* what a failed invocation printed before it failed
Captured == {"", "Error: rate limit exceeded"}

(***************************************************************************)
(* State                                                                   *)
(***************************************************************************)

VARIABLES
    pc,           \* position in Analyzer.Analyze / Client.Analyze
    pass,         \* number of the pass being run, 0 before the first
    arch,         \* the build: GOARCH
    dirExists,    \* os.Stat(projectDir) finds the directory
    installed,    \* exec.LookPath("claude") finds the tool
    envChanges,   \* number of changes of the environment so far
    invocations,  \* the calls of runClaudeCommand, in order
    returns,      \* the outcome of each call that has returned
    inflight,     \* number of tool processes running
    analysis,     \* the Report under construction, NoReport before creation
    ret,          \* what Analyze returned: [report, err], report = NoReport for nil
    postCount,    \* number of applications of postProcess
    given,        \* the Report as it was handed to postProcess
    once,         \* the Report after the first application of postProcess
    cmd,          \* position in the analyze command, "none" without a command
    mode,         \* viper "llm.mode"
    outputFormat, \* the --output flag
    apiKey,       \* an API key is configured
    sub,          \* the subscription record received, NoSubscription before
    requests,     \* the requests issued to the CloudPork service, in order
    send,         \* the call of SendAnalysis: its state, the response, its result
    printed,      \* the presentation of the Report that was printed
    exit          \* how the process ended: exit status and error printed

cliVars == <<cmd, mode, outputFormat, apiKey, sub, requests, send, printed, exit>>

vars == <<pc, pass, arch, dirExists, installed, envChanges, invocations, returns,
          inflight, analysis, ret, postCount, given, once, cliVars>>

projectID == "proj_1"
projectDir == "/work/app"

PassName(p) ==
    CASE p = 1 -> "structure"
      [] p = 2 -> "database/API"
      [] p = 3 -> "performance/scaling"
      [] p = 4 -> "resource estimation"

\* the prefix Client.Analyze puts before the error of a failed pass
PassLabel(p) ==
    CASE p = 1 -> "basic analysis failed"
      [] p = 2 -> "database/API analysis failed"
      [] p = 3 -> "performance analysis failed"
      [] p = 4 -> "resource estimation failed"

\* errors: the chain of messages (outermost first), and for a failed
\* invocation its pass, the failure of the process and the captured output
NoErr == [kind |-> "none", msgs |-> <<>>, pass |-> 0, cause |-> "", output |-> ""]
Err(kind, msgs) == [kind |-> kind, msgs |-> msgs, pass |-> 0, cause |-> "", output |-> ""]

\* the outcome of a call of runClaudeCommand: the output on success, the
\* failure of the process and what it had printed otherwise
Succeeded(output) == [status |-> "ok", cause |-> "", captured |-> "", output |-> output]
Failed(cause, captured) ==
    [status |-> "failed", cause |-> cause, captured |-> captured, output |-> Text(<<>>)]

NotReturned == [returned |-> FALSE, report |-> NoReport, err |-> NoErr]
Return(report, err) == [returned |-> TRUE, report |-> report, err |-> err]

NoSubscription ==
    [Tier |-> "", Status |-> "", AnalysesUsed |-> 0, AnalysesLimit |-> 0,
     IsTrialing |-> FALSE, DaysRemaining |-> 0]
NoSend == [state |-> "none", status |-> 0, body |-> "", err |-> NoErr]
NotExited == [exited |-> FALSE, code |-> 0, err |-> NoErr]

\* Analyze called without the analyze command around it
NoCommand ==
    /\ cmd = "none"
    /\ mode = "cloud"
    /\ outputFormat = "dashboard"
    /\ apiKey = FALSE
    /\ sub = NoSubscription
    /\ requests = <<>>
    /\ send = NoSend
    /\ printed = "none"
    /\ exit = NotExited

\* the outputs of the tool: every sample for Analyze alone, one or two per
\* pass under the analyze command
CmdOutputs(p) ==
    CASE p = 1 -> { Json([language |-> "Go", framework |-> "Gin",
                          dependencies |-> <<"gin", "viper">>, api_endpoints |-> 12,
                          background_jobs |-> <<"emailer">>, file_uploads |-> TRUE]),
                    Text(<<W("hello"), W("world")>>) }
      [] p = 2 -> { Text(<<>>), Text(<<W("Complexity"), N(150)>>) }
      [] p = 3 -> { Text(<<W("the"), W("database"), W("is"), W("slow")>>) }
      [] p = 4 -> { Text(<<>>), Text(<<N(2048), W("memory"), NL, D(0, 5), W("CPU")>>) }

ToolOutputs(p) == IF cmd = "none" THEN Outputs(p) ELSE CmdOutputs(p)

Init ==
    /\ pc = "new"
    /\ pass = 0
    /\ arch \in Archs
    /\ dirExists \in BOOLEAN
    /\ installed \in BOOLEAN
    /\ envChanges = 0
    /\ invocations = <<>>
    /\ returns = <<>>
    /\ inflight = 0
    /\ analysis = NoReport
    /\ ret = NotReturned
    /\ postCount = 0
    /\ given = NoReport
    /\ once = NoReport
    /\ NoCommand

(***************************************************************************)
(* Analyzer.Analyze and Client.Analyze                                     *)
(***************************************************************************)

\* Analyze that stops without handing anything to its caller
Finish_silent(report, err) ==
    /\ pc' = "done"
    /\ ret' = NotReturned

\* Analyze returns (report, err) to its caller
Finish(report, err) ==
    /\ pc' = "done"
    /\ ret' = Return(report, err)

\* preflightChecks that refuses a directory that does not look like a code
\* project instead of warning
Preflight_strict ==
    /\ pc = "new"
    /\ \E isCode \in BOOLEAN :
          IF ~dirExists
          THEN Finish(NoReport, Err("DirectoryMissing", <<"directory does not exist">>))
          ELSE IF ~isCode
          THEN Finish(NoReport, Err("NotACodeProject", <<"not a code project">>))
          ELSE IF ~installed
          THEN Finish(NoReport, Err("ToolUnavailable", <<"Claude Code CLI not installed">>))
          ELSE pc' = "client" /\ ret' = ret
    /\ UNCHANGED <<cliVars, pass, arch, dirExists, installed, envChanges, invocations, returns,
                   inflight, analysis, postCount, given, once>>

\* Analyzer.Analyze up to the call of claude.Analyze: preflightChecks.
\* isCode is the result of isCodeProject, which only decides on a warning.
Preflight ==
    /\ pc = "new"
    /\ \E isCode \in BOOLEAN :
          IF ~dirExists
          THEN Finish(NoReport, Err("DirectoryMissing", <<"directory does not exist">>))
          ELSE IF ~installed
          THEN Finish(NoReport, Err("ToolUnavailable", <<"Claude Code CLI not installed">>))
          ELSE pc' = "client" /\ ret' = ret
    /\ UNCHANGED <<cliVars, pass, arch, dirExists, installed, envChanges, invocations, returns,
                   inflight, analysis, postCount, given, once>>

\* Client.Analyze without its check of IsInstalled
ClientStart_noCheck ==
    /\ pc = "client"
    /\ analysis' = NewCodeAnalysis(projectID, projectDir)
    /\ pass' = 1
    /\ pc' = "call"
    /\ UNCHANGED <<cliVars, arch, dirExists, installed, envChanges, invocations, returns,
                   inflight, ret, postCount, given, once>>

\* Client.Analyze up to the first pass: the check of IsInstalled and the
\* creation of the Report
ClientStart ==
    /\ pc = "client"
    /\ IF ~installed
       THEN /\ Finish(NoReport, Err("ToolUnavailable",
                        <<"claude analysis failed", "Claude Code CLI not installed">>))
            /\ UNCHANGED <<cliVars, analysis, pass>>
       ELSE /\ analysis' = NewCodeAnalysis(projectID, projectDir)
            /\ pass' = 1
            /\ pc' = "call"
            /\ ret' = ret
    /\ UNCHANGED <<cliVars, arch, dirExists, installed, envChanges, invocations, returns,
                   inflight, postCount, given, once>>

\* the error Analyze returns when the invocation of pass p fails
PassError(p, cause, output) ==
    [kind |-> "ToolInvocation",
     msgs |-> <<"claude analysis failed", PassLabel(p), "claude command failed">>,
     pass |-> p, cause |-> cause, output |-> output]

\* what runClaudeCommand is called with
Invocation(p) ==
    [pass |-> PassName(p),
     prompt |-> IF p = 4 THEN resourcePrompt(analysis)
                ELSE [Language |-> "", Framework |-> "", ApiEndpoints |-> 0,
                      BackgroundJobs |-> 0, ComplexityScore |-> 0]]

\* a pass calls runClaudeCommand: the process is started, or exec fails at
\* once because the tool is not on the path
Invoke ==
    /\ pc = "call"
    /\ invocations' = Append(invocations, Invocation(pass))
    /\ IF installed
       THEN /\ inflight' = inflight + 1
            /\ pc' = "wait"
            /\ UNCHANGED <<cliVars, ret, returns>>
       ELSE /\ returns' = Append(returns, Failed("executable file not found", ""))
            /\ Finish(NoReport, PassError(pass, "executable file not found", ""))
            /\ UNCHANGED inflight
    /\ UNCHANGED <<cliVars, pass, arch, dirExists, installed, envChanges, analysis, postCount,
                   given, once>>

\* the parsing a pass applies to the output of its invocation
ApplyPass(p, report, output) ==
    CASE p = 1 -> analyzeBasicStructure(report, output)
      [] p = 2 -> analyzeDatabaseAndAPI(report, output)
      [] p = 3 -> analyzePerformanceAndScaling(report, output)
      [] p = 4 -> estimateResources(report, output)

\* a pass that is run again when its output holds no word at all
ToolSucceeds_retry ==
    /\ pc = "wait"
    /\ \E output \in ToolOutputs(pass) :
          /\ analysis' = ApplyPass(pass, analysis, output)
          /\ returns' = Append(returns, Succeeded(output))
          /\ IF ~output.json /\ output.text = <<>> /\ Len(invocations) < 6
             THEN pass' = pass /\ pc' = "call"
             ELSE IF pass < 4
             THEN pass' = pass + 1 /\ pc' = "call"
             ELSE pass' = pass /\ pc' = "post"
    /\ inflight' = inflight - 1
    /\ UNCHANGED <<cliVars, arch, dirExists, installed, envChanges, invocations, ret, postCount,
                   given, once>>

\* the process exits with status 0: the pass parses the output and
\* Client.Analyze goes on to the next pass, or returns after the fourth
ToolSucceeds ==
    /\ pc = "wait"
    /\ \E output \in ToolOutputs(pass) :
          /\ analysis' = ApplyPass(pass, analysis, output)
          /\ returns' = Append(returns, Succeeded(output))
    /\ inflight' = inflight - 1
    /\ IF pass < 4
       THEN pass' = pass + 1 /\ pc' = "call"
       ELSE pass' = pass /\ pc' = "post"
    /\ UNCHANGED <<cliVars, arch, dirExists, installed, envChanges, invocations, ret, postCount,
                   given, once>>

\* a failed pass that hands the Report built so far to the caller
ToolFails_partial ==
    /\ pc = "wait"
    /\ \E output \in Captured :
          /\ Finish(analysis, PassError(pass, "exit status 1", output))
          /\ returns' = Append(returns, Failed("exit status 1", output))
    /\ inflight' = inflight - 1
    /\ UNCHANGED <<cliVars, pass, arch, dirExists, installed, envChanges, invocations, analysis,
                   postCount, given, once>>

\* the process exits with a non-zero status: the pass, Client.Analyze and
\* Analyzer.Analyze return the error
ToolFails ==
    /\ pc = "wait"
    /\ \E output \in Captured :
          /\ Finish(NoReport, PassError(pass, "exit status 1", output))
          /\ returns' = Append(returns, Failed("exit status 1", output))
    /\ inflight' = inflight - 1
    /\ UNCHANGED <<cliVars, pass, arch, dirExists, installed, envChanges, invocations, analysis,
                   postCount, given, once>>

\* PostProcessReturn that runs postProcess a second time on its result
PostProcessReturn_twice ==
    /\ pc = "post"
    /\ given' = analysis
    /\ once' = postProcess(analysis, arch)
    /\ analysis' = postProcess(once', arch)
    /\ postCount' = postCount + 2
    /\ Finish(analysis', NoErr)
    /\ UNCHANGED <<cliVars, pass, arch, dirExists, installed, envChanges, invocations, returns,
                   inflight>>

\* PostProcessReturn that caps the estimate of a trial subscription
PostProcessReturn_tiered ==
    /\ pc = "post"
    /\ given' = analysis
    /\ analysis' = [postProcess(analysis, arch) EXCEPT
                        !.EstimatedUsers = IF sub.Tier = "trial" THEN 100 ELSE @]
    /\ once' = analysis'
    /\ postCount' = postCount + 1
    /\ Finish(analysis', NoErr)
    /\ UNCHANGED <<cliVars, pass, arch, dirExists, installed, envChanges, invocations, returns,
                   inflight>>

\* Analyzer.Analyze after claude.Analyze returned a Report: postProcess and
\* the return of the Report
PostProcessReturn ==
    /\ pc = "post"
    /\ given' = analysis
    /\ analysis' = postProcess(analysis, arch)
    /\ once' = analysis'
    /\ postCount' = postCount + 1
    /\ Finish(analysis', NoErr)
    /\ UNCHANGED <<cliVars, pass, arch, dirExists, installed, envChanges, invocations, returns,
                   inflight>>

\* the environment changes while Analyze runs: the project directory is
\* removed or restored, the tool is removed from or added to the path
EnvChange ==
    /\ pc # "done"
    /\ envChanges < MaxEnvChanges
    /\ envChanges' = envChanges + 1
    /\ \/ dirExists' = ~dirExists /\ UNCHANGED installed
       \/ installed' = ~installed /\ UNCHANGED dirExists
    /\ UNCHANGED <<cliVars, pc, pass, arch, invocations, returns, inflight, analysis, ret,
                   postCount, given, once>>

Next ==
    \/ Preflight
    \/ ClientStart
    \/ Invoke
    \/ ToolSucceeds
    \/ ToolFails
    \/ PostProcessReturn
    \/ EnvChange

Spec == Init /\ [][Next]_vars

(***************************************************************************)
(* The Normalizer as a function of its input: postProcess applied to a     *)
(* Report, and applied again to the result.  The Reports are those the     *)
(* fields can hold: structure fields as pass 1 writes them, a complexity   *)
(* score that is 0 (never written) or a value of extractComplexity, and    *)
(* resource estimates that are zero, negative, in range or huge.           *)
(***************************************************************************)

StructureReports ==
    { analyzeBasicStructure(NewCodeAnalysis(projectID, projectDir), o) : o \in StructureOutputs }

ComplexityValues == {0} \cup { extractComplexity(o.text) : o \in DatabaseOutputs }

ResourceSamples ==
    { [MemoryMB |-> m, CPUCores |-> c, DatabaseConns |-> d, NetworkMbps |-> n, StorageGB |-> g] :
        m \in {-5, 512, 16385}, c \in {0, 250, 3201}, d \in {0, 50, 1001},
        n \in {-1, 100, 10001}, g \in {0, 20, Huge} }
    \cup
    { [MemoryMB |-> 128, CPUCores |-> 10, DatabaseConns |-> 1, NetworkMbps |-> 1, StorageGB |-> 1],
      [MemoryMB |-> 127, CPUCores |-> 9, DatabaseConns |-> 0, NetworkMbps |-> 0, StorageGB |-> 0],
      [MemoryMB |-> 16384, CPUCores |-> 3200, DatabaseConns |-> 1000, NetworkMbps |-> 10000,
       StorageGB |-> 10000],
      [MemoryMB |-> Huge, CPUCores |-> Huge, DatabaseConns |-> Huge, NetworkMbps |-> Huge,
       StorageGB |-> Huge],
      [MemoryMB |-> -Huge, CPUCores |-> -Huge, DatabaseConns |-> -Huge, NetworkMbps |-> -Huge,
       StorageGB |-> -Huge],
      ZeroResources }

NormInputs ==
    { [s EXCEPT !.ComplexityScore = c, !.ResourceUsage = r] :
        s \in StructureReports, c \in ComplexityValues, r \in ResourceSamples }

InitNorm ==
    /\ pc = "norm0"
    /\ pass = 0
    /\ arch \in Archs
    /\ dirExists = TRUE
    /\ installed = TRUE
    /\ envChanges = 0
    /\ invocations = <<>>
    /\ returns = <<>>
    /\ inflight = 0
    /\ analysis \in NormInputs
    /\ ret = NotReturned
    /\ postCount = 0
    /\ given = NoReport
    /\ once = NoReport
    /\ NoCommand

\* postProcess(r)
NormFirst ==
    /\ pc = "norm0"
    /\ pc' = "norm1"
    /\ given' = analysis
    /\ analysis' = postProcess(analysis, arch)
    /\ once' = analysis'
    /\ postCount' = postCount + 1
    /\ UNCHANGED <<cliVars, pass, arch, dirExists, installed, envChanges, invocations, returns,
                   inflight, ret>>

\* postProcess(postProcess(r))
NormSecond ==
    /\ pc = "norm1"
    /\ pc' = "norm2"
    /\ analysis' = postProcess(analysis, arch)
    /\ postCount' = postCount + 1
    /\ UNCHANGED <<cliVars, pass, arch, dirExists, installed, envChanges, invocations, returns,
                   inflight, ret, given, once>>

NextNorm == NormFirst \/ NormSecond

SpecNorm == InitNorm /\ [][NextNorm]_vars

(***************************************************************************)
(* Properties                                                              *)
(***************************************************************************)

Min2(a, b) == IF a < b THEN a ELSE b
Max2(a, b) == IF a > b THEN a ELSE b
Clamp(v, lo, hi) == Min2(Max2(v, lo), hi)

Last(seq) == seq[Len(seq)]
AllSucceeded == \A i \in 1..Len(returns) : returns[i].status = "ok"
Normalized == pc \in {"norm1", "norm2"}

\* C1: for every input Report, postProcess maps each field v of the
\* ResourceEstimate to min(max(v, lo), hi), with memory in [128, 16384] MB,
\* CPU in [0.1, 32.0] cores (hundredths: [10, 3200]), DB connections in
\* [1, 1000], bandwidth in [1, 10000] Mbps and storage in [1, 10000] GB; no
\* input is rejected (the Normalizer can be applied to every input).
C1_ResourcesClamped ==
    /\ pc = "norm0" => ENABLED NormFirst
    /\ pc = "norm1" =>
        LET in == given.ResourceUsage
            out == analysis.ResourceUsage
        IN /\ out.MemoryMB = Clamp(in.MemoryMB, 128, 16384)
           /\ out.CPUCores = Clamp(in.CPUCores, 10, 3200)
           /\ out.DatabaseConns = Clamp(in.DatabaseConns, 1, 1000)
           /\ out.NetworkMbps = Clamp(in.NetworkMbps, 1, 10000)
           /\ out.StorageGB = Clamp(in.StorageGB, 1, 10000)

\* a negative memory raised to 128, a CPU in range kept, a huge storage cut
\* to 10000
C1_Witness ==
    /\ pc = "norm1"
    /\ given.ResourceUsage.MemoryMB = -5 /\ analysis.ResourceUsage.MemoryMB = 128
    /\ given.ResourceUsage.CPUCores = 250 /\ analysis.ResourceUsage.CPUCores = 250
    /\ given.ResourceUsage.NetworkMbps = 10001 /\ analysis.ResourceUsage.NetworkMbps = 10000
    /\ given.ResourceUsage.StorageGB = Huge /\ analysis.ResourceUsage.StorageGB = 10000

\* C2: when the invocation of a pass fails, Analyze returns an error that
\* carries the failure of that invocation (its pass, its cause, its captured
\* output) and no Report; no later pass is invoked and postProcess is not run.
C2_FailedPassNoReport ==
    (returns # <<>> /\ Last(returns).status = "failed") =>
        /\ pc = "done"
        /\ ret.returned
        /\ ret.report = NoReport
        /\ ret.err.kind = "ToolInvocation"
        /\ ret.err.pass = Len(returns)
        /\ ret.err.cause = Last(returns).cause
        /\ ret.err.output = Last(returns).captured
        /\ Len(invocations) = Len(returns)
        /\ inflight = 0
        /\ postCount = 0

\* the third pass failed after printing something
C2_Witness ==
    /\ pc = "done"
    /\ Len(returns) = 3
    /\ returns[3].status = "failed"
    /\ ret.err.output = "Error: rate limit exceeded"
    /\ analysis # NoReport

\* C3: the invocations are a prefix of (structure, database/API,
\* performance/scaling, resource estimation); invocation k+1 starts only
\* after invocation k returned successfully; at most one is in flight; a
\* run that returns a Report made four, a run failing at pass k made k.
C3_SequentialPasses ==
    /\ Len(invocations) <= 4
    /\ \A i \in 1..Len(invocations) : invocations[i].pass = PassName(i)
    /\ inflight \in {0, 1}
    /\ inflight = Len(invocations) - Len(returns)
    /\ \A i \in 2..Len(invocations) : returns[i - 1].status = "ok"
    /\ (ret.returned /\ ret.report # NoReport) => Len(invocations) = 4 /\ AllSucceeded
    /\ (ret.returned /\ ret.err.kind = "ToolInvocation") => Len(invocations) = ret.err.pass

\* a successful run with its four invocations
C3_Witness ==
    /\ pc = "done"
    /\ ret.report # NoReport
    /\ Len(invocations) = 4
    /\ Len(returns) = 4

\* C4: postProcess is idempotent: applied to postProcess(r) it yields a
\* Report equal to postProcess(r) in every field, estimated_users included,
\* for every Report r, one with complexity score 0 included.
C4_Idempotent == pc = "norm2" => analysis = once

\* C5: every Report that leaves postProcess has a complexity score in
\* [1, 100]; a complexity score of 0 has become 50.
C5_ComplexityInRange ==
    Normalized =>
        /\ analysis.ComplexityScore \in 1..100
        /\ given.ComplexityScore = 0 => analysis.ComplexityScore = 50

\* a Report that entered with complexity 0 and left with 50
C5_Witness ==
    /\ pc = "norm1"
    /\ given.ComplexityScore = 0
    /\ analysis.ComplexityScore = 50

\* C6: every Report that leaves postProcess has estimated_users in
\* [100, 1000000], whatever its complexity score, endpoint count and
\* background jobs.
C6_UsersInRange ==
    Normalized => analysis.EstimatedUsers \in 100..1000000

\* an estimate cut to the upper bound (complexity 100, 5000 endpoints) 
C6_Witness ==
    /\ pc = "norm1"
    /\ given.ComplexityScore = 100
    /\ given.ApiEndpoints = 5000
    /\ analysis.EstimatedUsers = 1000000

\* C7: every Report that leaves postProcess has a non-empty language and a
\* non-empty framework: an empty value has become "Unknown", a non-empty
\* value is unchanged.
C7_LanguageFrameworkSet ==
    Normalized =>
        /\ analysis.Language # ""
        /\ analysis.Framework # ""
        /\ analysis.Language = (IF given.Language = "" THEN "Unknown" ELSE given.Language)
        /\ analysis.Framework = (IF given.Framework = "" THEN "Unknown" ELSE given.Framework)

\* a payload without language: the language defaulted, the framework kept
C7_Witness ==
    /\ pc = "norm1"
    /\ given.Language = "" /\ analysis.Language = "Unknown"
    /\ given.Framework = "Rails" /\ analysis.Framework = "Rails"

NumberPatterns == {"database", "endpoint", "memory", "conn", "network", "storage"}
NoNumber(text) == \A i \in 1..Len(text) : ~IsNum(text[i])
NoWord(text) == \A i \in 1..Len(text) : text[i].k # "w"

\* C8: parse degradation is no error: as long as every invocation returned
\* successfully Analyze returns no error, and after four of them it returns
\* a Report, whatever the outputs were; on an output without a number the
\* extractors yield 0, 0.0 and 50, on one without a word the empty list,
\* no Bottleneck and "low".
C8_ParseDegradationNoError ==
    /\ (returns # <<>> /\ AllSucceeded) => ret.err = NoErr
    /\ (pc = "done" /\ Len(returns) = 4 /\ AllSucceeded) =>
            ret.returned /\ ret.report # NoReport /\ ret.err = NoErr
    /\ \A i \in 1..Len(returns) :
          LET text == returns[i].output.text IN
          returns[i].status = "ok" =>
            /\ NoNumber(text) =>
                /\ \A p \in NumberPatterns : extractNumber(text, p) = 0
                /\ extractFloat(text, "cpu") = 0
                /\ extractComplexity(text) = 50
            /\ NoWord(text) =>
                /\ extractCacheUsage(text) = <<>>
                /\ extractBottlenecks(text) = <<>>
                /\ extractSeverity(text) = "low"

\* a Report returned from four outputs that hold nothing to extract
C8_Witness ==
    /\ pc = "done"
    /\ Len(returns) = 4
    /\ \A i \in 1..4 : returns[i].status = "ok" /\ ~returns[i].output.json
                       /\ returns[i].output.text = <<>>
    /\ ret.report # NoReport
    /\ ret.err = NoErr

\* C9 as stated: Analyze returns an error only when the tool is not
\* resolvable or the invocation of a pass failed.
C9_OnlyTwoFatalCases ==
    (ret.returned /\ ret.err # NoErr) => ret.err.kind \in {"ToolUnavailable", "ToolInvocation"}

\* C9 amended: Analyze returns an error only when the project directory
\* does not exist, the tool is not resolvable, or the invocation of a pass
\* failed; otherwise, after four successful invocations, it returns a Report.
C9_ThreeFatalCases ==
    ret.returned =>
        \/ /\ ret.err = NoErr
           /\ ret.report # NoReport
           /\ Len(returns) = 4 /\ AllSucceeded
        \/ /\ ret.err.kind \in {"DirectoryMissing", "ToolUnavailable"}
           /\ ret.report = NoReport
           /\ invocations = <<>>
        \/ /\ ret.err.kind = "ToolInvocation"
           /\ ret.report = NoReport
           /\ returns # <<>> /\ Last(returns).status = "failed"

\* Analyze refused a directory that does not exist
C9_Witness ==
    /\ ret.returned
    /\ ret.err.kind = "DirectoryMissing"
    /\ ~dirExists
    /\ installed

\* C10: a check of the tool (in preflightChecks or at the start of
\* Client.Analyze) made while the tool is not resolvable ends Analyze with
\* an error, without any invocation and without a Report created or
\* returned; an error of this kind is never returned after an invocation.
C10_ToolUnavailableBeforePasses ==
    [][ /\ (pc \in {"new", "client"} /\ ~installed /\ pc' # pc) =>
            /\ pc' = "done"
            /\ ret'.returned /\ ret'.err # NoErr /\ ret'.report = NoReport
            /\ invocations' = <<>>
            /\ analysis' = NoReport
        /\ (ret'.returned /\ ret'.err.kind = "ToolUnavailable") =>
            /\ invocations' = <<>> /\ analysis' = NoReport /\ postCount' = 0 ]_vars

\* the tool vanished between preflightChecks and Client.Analyze
C10_Witness ==
    /\ pc = "done"
    /\ ret.err.kind = "ToolUnavailable"
    /\ Len(ret.err.msgs) = 2
    /\ invocations = <<>>
    /\ analysis = NoReport

(***************************************************************************)
(* The passes as functions of the Report and of the output: a pass applied *)
(* to every output of at most MaxTextLen tokens over the words and numbers *)
(* its extractors look for.                                                *)
(***************************************************************************)

\* the sequences of at most n elements of A
BoundedSeq(A, n) == UNION { [1..m -> A] : m \in 0..n }

StructureTokens ==
    {W("javascript"), W("java"), W("Django"), W("gin"), W("hello"), W("endpoints"),
     N(24), N(0), H, NL}
DatabaseTokens ==
    {W("Complexity"), W("score"), W("query"), W("hello"), N(0), N(72), N(100), N(150), H, NL}
PerformanceTokens ==
    {W("Database"), W("slow"), W("limits"), W("memory"), W("leak"), W("CRITICAL"),
     W("High"), W("medium"), NL}
ResourceTokens ==
    {W("MB"), W("memory"), W("CPU"), N(512), D(0, 5), H, NL}

PassTokens(p) ==
    CASE p = 1 -> StructureTokens
      [] p = 2 -> DatabaseTokens
      [] p = 3 -> PerformanceTokens
      [] p = 4 -> ResourceTokens

\* the words of the cache vocabulary, and of a vocabulary it does not hold
CacheTokens ==
    {W("Redis"), W("memcached"), W("memory"), W("browser"), W("cache"), W("CDN"),
     W("in-process"), NL}

SeverityTokens == {W("CRITICAL"), W("High"), W("medium"), W("hello")}

\* the texts of a pass: over its tokens; for pass 2 also over the cache
\* words; for pass 3 also a database line followed by severity words
PassTexts(p) ==
    BoundedSeq(PassTokens(p), MaxTextLen)
    \cup (IF p = 2 THEN BoundedSeq(CacheTokens, MaxTextLen) ELSE {})
    \cup (IF p = 3
          THEN { <<W("database"), W("slow")>> \o t : t \in BoundedSeq(SeverityTokens, MaxTextLen) }
          ELSE {})

PassInputs(p) == Outputs(p) \cup { Text(t) : t \in PassTexts(p) }

\* the Reports a pass is applied to: the new Report for passes 1 to 3, and
\* for pass 4 a Report with the complexity score (a value of the database
\* pass) and the endpoint count (a value of the structure pass) on both
\* sides of every band of the lookup tables
PassReports(p) ==
    LET new == NewCodeAnalysis(projectID, projectDir) IN
    CASE p = 4 -> { [new EXCEPT !.ComplexityScore = c, !.ApiEndpoints = e] :
                      c \in {1, 39, 40, 59, 60, 79, 80, 85, 100},
                      e \in {-3, 0, 3, 9, 10, 19, 20, 49, 50, Huge} }
      [] OTHER -> {new}

InitText ==
    /\ pc = "text0"
    /\ pass \in 1..4
    /\ arch = "amd64"
    /\ dirExists = TRUE
    /\ installed = TRUE
    /\ envChanges = 0
    /\ invocations = <<>>
    /\ returns = <<>>
    /\ inflight = 0
    /\ analysis \in PassReports(pass)
    /\ ret = NotReturned
    /\ postCount = 0
    /\ given = NoReport
    /\ once = NoReport
    /\ NoCommand

\* pass p parses an output; given keeps the Report as it was before
RunPass(p) ==
    /\ pc = "text0"
    /\ pass = p
    /\ \E output \in PassInputs(p) :
          /\ analysis' = ApplyPass(p, analysis, output)
          /\ returns' = <<Succeeded(output)>>
    /\ given' = analysis
    /\ pc' = "text1"
    /\ UNCHANGED <<cliVars, pass, arch, dirExists, installed, envChanges, invocations, inflight,
                   ret, postCount, once>>

RunStructurePass == RunPass(1)
RunDatabasePass == RunPass(2)
RunPerformancePass == RunPass(3)
RunResourcePass == RunPass(4)

NextText ==
    \/ RunStructurePass
    \/ RunDatabasePass
    \/ RunPerformancePass
    \/ RunResourcePass

SpecText == InitText /\ [][NextText]_vars

\* C11: in the structure pass, when the output decodes as the structured
\* payload, language, framework, dependencies, api_endpoints,
\* background_jobs and file_uploads of the Report are the values of the
\* payload, empty strings and 0 endpoints included: the default of 5
\* endpoints and the vocabulary search of the heuristic path are not applied.
C11_PayloadVerbatim ==
    (pc \in {"call", "wait", "post"} /\ returns # <<>> /\ returns[1].status = "ok"
        /\ returns[1].output.json) =>
        LET payload == returns[1].output.payload IN
        /\ analysis.Language = payload.language
        /\ analysis.Framework = payload.framework
        /\ analysis.Dependencies = payload.dependencies
        /\ analysis.ApiEndpoints = payload.api_endpoints
        /\ analysis.BackgroundJobs = payload.background_jobs
        /\ analysis.FileUploads = payload.file_uploads

\* the empty payload went through all four passes: no language, 0 endpoints
C11_Witness ==
    /\ pc = "post"
    /\ returns[1].output = Json(NoPayload)
    /\ analysis.Language = ""
    /\ analysis.ApiEndpoints = 0

\* an ordered table of (threshold, value) bands with a default
Band(bands, default, x) ==
    LET hits == { i \in 1..Len(bands) : x >= bands[i][1] }
    IN IF hits = {} THEN default ELSE bands[Min(hits)][2]

MemoryBands == << <<80, 2048>>, <<60, 1024>>, <<40, 512>> >>
CPUBands == << <<50, 400>>, <<20, 200>>, <<10, 100>> >>

\* C12: in the resource pass a memory that extracts to zero is set from the
\* complexity score by the bands >=80 -> 2048, >=60 -> 1024, >=40 -> 512,
\* else 256 MB, a CPU that extracts to zero is set from the endpoint count by
\* the bands >=50 -> 4.0, >=20 -> 2.0, >=10 -> 1.0, else 0.5 cores; a
\* non-zero extracted value is kept.
C12_ResourceBands ==
    (pc = "text1" /\ pass = 4) =>
        LET text == returns[1].output.text
            mem == extractNumber(text, "memory")
            cpu == extractFloat(text, "cpu")
        IN /\ analysis.ResourceUsage.MemoryMB =
                (IF mem = 0 THEN Band(MemoryBands, 256, given.ComplexityScore) ELSE mem)
           /\ analysis.ResourceUsage.CPUCores =
                (IF cpu = 0 THEN Band(CPUBands, 50, given.ApiEndpoints) ELSE cpu)

\* complexity 85 and 3 endpoints with nothing extracted: 2048 MB, 0.5 cores
C12_Witness ==
    /\ pc = "text1" /\ pass = 4
    /\ given.ComplexityScore = 85 /\ given.ApiEndpoints = 3
    /\ returns[1].output.text = <<>>
    /\ analysis.ResourceUsage.MemoryMB = 2048
    /\ analysis.ResourceUsage.CPUCores = 50

\* 1000 * (complexity / 50) * max(0.5, endpoints / 10) * (1.5 with jobs, else
\* 1.0), cut to [100, 1000000]; an endpoint count of Huge with a positive
\* complexity is above the upper bound
UsersFormula(report) ==
    LET endpointTenths == Max2(5, report.ApiEndpoints)
        jobHalves == IF report.BackgroundJobs # <<>> THEN 3 ELSE 2
    IN IF endpointTenths >= 1000000 /\ report.ComplexityScore >= 1 THEN 1000000
       ELSE IF endpointTenths >= 1000000 THEN 100
       ELSE Clamp((1000 * report.ComplexityScore * endpointTenths * jobHalves) \div 1000,
                  100, 1000000)

\* C13: in every Report that leaves postProcess, estimated_users is the
\* clamped product computed from the complexity score, the endpoint count
\* and the background jobs of that returned Report: a Report that entered
\* with complexity 0 and leaves with 50 carries the estimate for 50.
C13_UsersFromReturnedReport ==
    pc = "norm1" => analysis.EstimatedUsers = UsersFormula(analysis)

\* the position in list of its first entry that is a substring of the
\* lower-cased text, 0 when there is none
FirstIndex(list, text) ==
    LET hits == { i \in 1..Len(list) : Contains(text, list[i]) }
    IN IF hits = {} THEN 0 ELSE Min(hits)

HeuristicPath == pc = "text1" /\ pass = 1 /\ ~returns[1].output.json

\* what the heuristic path leaves alone and what it does with the endpoints
HeuristicRest ==
    LET n == extractNumber(returns[1].output.text, "endpoint") IN
    /\ analysis.ApiEndpoints = (IF n = 0 THEN 5 ELSE n)
    /\ analysis.ApiEndpoints >= 1
    /\ analysis.Dependencies = given.Dependencies
    /\ analysis.BackgroundJobs = given.BackgroundJobs
    /\ analysis.FileUploads = given.FileUploads

\* C19 as stated: on the heuristic path of the structure pass, language is
\* the first entry of (javascript, python, go, java, php, ruby, typescript)
\* that occurs in the lower-cased text, framework the first entry of (react,
\* vue, angular, express, fastapi, django, gin, echo); a field without a
\* match is untouched; api_endpoints is the extracted integer, or 5 when
\* that is zero, so at least 1; dependencies, background_jobs and
\* file_uploads are not written.
C19_HeuristicSetsListEntry ==
    HeuristicPath =>
        LET l == FirstIndex(languages, returns[1].output.text)
            f == FirstIndex(frameworks, returns[1].output.text)
        IN /\ analysis.Language = (IF l = 0 THEN given.Language ELSE languages[l])
           /\ analysis.Framework = (IF f = 0 THEN given.Framework ELSE frameworks[f])
           /\ HeuristicRest

\* C19 amended: as above, but language and framework are set to the
\* title-cased form (first letter in upper case) of the first entry that
\* occurs in the lower-cased text.
C19_HeuristicSetsTitledEntry ==
    HeuristicPath =>
        LET l == FirstIndex(languages, returns[1].output.text)
            f == FirstIndex(frameworks, returns[1].output.text)
        IN /\ analysis.Language = (IF l = 0 THEN given.Language ELSE Title(languages[l]))
           /\ analysis.Framework = (IF f = 0 THEN given.Framework ELSE Title(frameworks[f]))
           /\ HeuristicRest

\* "java Django": go (in django) comes before java in the list; no number,
\* so 5 endpoints
C19_Witness ==
    /\ HeuristicPath
    /\ returns[1].output.text = <<W("java"), W("Django")>>
    /\ given.ApiEndpoints = 0
    /\ analysis.Language = "Go" /\ analysis.Framework = "Django"
    /\ analysis.ApiEndpoints = 5

\* C20: extractComplexity returns an integer in [1, 100]: the number after
\* a keyword (complexity, score), the number before a keyword only when the
\* first is zero, and 50 when neither gives a number or the number is
\* outside [1, 100]; after the database pass the complexity score of the
\* Report is that value, for every tool output.
C20_ComplexityExtracted ==
    (pc = "text1" /\ pass = 2) =>
        LET text == returns[1].output.text
            after == extractNumber(text, "complexity-after")
            n == IF after # 0 THEN after ELSE extractNumber(text, "complexity-before")
        IN /\ analysis.ComplexityScore \in 1..100
           /\ analysis.ComplexityScore = (IF n \in 1..100 THEN n ELSE 50)

\* "Complexity score 72" gives 72
C20_Witness ==
    /\ pc = "text1" /\ pass = 2
    /\ returns[1].output.text = <<W("Complexity"), W("score"), N(72)>>
    /\ analysis.ComplexityScore = 72

(***************************************************************************)
(* The analyze command: runAnalyze, performAnalysis, SendAnalysis, main    *)
(***************************************************************************)

Modes == {"cloud", "local", "hybrid"}
OutputFormats == {"dashboard", "json", "quiet"}

\* the subscription records of the model: a trial with its analysis left, a
\* trial about to expire, a used-up trial, a paid tier at its limit
Subscriptions ==
    { [Tier |-> "trial", Status |-> "active", AnalysesUsed |-> 0, AnalysesLimit |-> 1,
       IsTrialing |-> TRUE, DaysRemaining |-> 6],
      [Tier |-> "trial", Status |-> "active", AnalysesUsed |-> 0, AnalysesLimit |-> 1,
       IsTrialing |-> TRUE, DaysRemaining |-> 2],
      [Tier |-> "trial", Status |-> "active", AnalysesUsed |-> 1, AnalysesLimit |-> 1,
       IsTrialing |-> TRUE, DaysRemaining |-> 0],
      [Tier |-> "professional", Status |-> "past_due", AnalysesUsed |-> 100,
       AnalysesLimit |-> 100, IsTrialing |-> FALSE, DaysRemaining |-> 0] }

\* the response statuses of POST /v1/analysis used by the model
Statuses == {200, 201, 202, 204, 400, 401, 500}
Bodies == {"", "quota exceeded"}

GetSubscription == [method |-> "GET", url |-> "https://api.cloudpork.com/v1/subscription"]
PostAnalysis == [method |-> "POST", url |-> "https://api.cloudpork.com/v1/analysis"]

\* os.Exit(1) after "Error: ..." on stderr when the command returned an
\* error, exit status 0 otherwise
main(err) ==
    IF err.kind = "none"
    THEN [exited |-> TRUE, code |-> 0, err |-> NoErr]
    ELSE [exited |-> TRUE, code |-> 1, err |-> err]

\* the command returns err
CmdReturn(err) ==
    /\ cmd' = "exit"
    /\ exit' = main(err)

\* fmt.Errorf that drops the error it wraps
Errorf_opaque(msg, err) == Err("Command", <<msg>>)

\* fmt.Errorf(msg + ": %v", err)
Errorf(msg, err) == [err EXCEPT !.msgs = <<msg>> \o @]

\* the error of SendAnalysis for a response that is not accepted
StatusError(status, body) ==
    [kind |-> "ApiStatus", msgs |-> <<"API request failed with status">>, pass |-> 0,
     cause |-> "", output |-> "", status |-> status, body |-> body]

InitCmd ==
    /\ pc = "idle"
    /\ pass = 0
    /\ arch = "amd64"
    /\ dirExists \in BOOLEAN
    /\ installed \in BOOLEAN
    /\ envChanges = 0
    /\ invocations = <<>>
    /\ returns = <<>>
    /\ inflight = 0
    /\ analysis = NoReport
    /\ ret = NotReturned
    /\ postCount = 0
    /\ given = NoReport
    /\ once = NoReport
    /\ cmd = "start"
    /\ mode \in Modes
    /\ outputFormat \in OutputFormats
    /\ apiKey \in BOOLEAN
    /\ sub = NoSubscription
    /\ requests = <<>>
    /\ send = NoSend
    /\ printed = "none"
    /\ exit = NotExited

pipelineVars ==
    <<pc, pass, arch, dirExists, installed, envChanges, invocations, returns, inflight,
      analysis, ret, postCount, given, once>>

\* runAnalyze up to the request of getSubscriptionInfo
CmdGetSubscription ==
    /\ cmd = "start"
    /\ requests' = Append(requests, GetSubscription)
    /\ cmd' = "subscription"
    /\ UNCHANGED <<pipelineVars, mode, outputFormat, apiKey, sub, send, printed, exit>>

\* getSubscriptionInfo fails: no response, a status other than 200, or a
\* body that does not decode
CmdSubscriptionFails ==
    /\ cmd = "subscription"
    /\ CmdReturn(Err("Subscription", <<"failed to get subscription info">>))
    /\ UNCHANGED <<pipelineVars, mode, outputFormat, apiKey, sub, requests, send, printed>>

\* the trial check that looks at the counters of every tier
TrialLimitReached_anyTier(s) == s.AnalysesUsed >= s.AnalysesLimit

\* the trial check of runAnalyze
TrialLimitReached(s) == s.Tier = "trial" /\ s.AnalysesUsed >= s.AnalysesLimit

\* getSubscriptionInfo returns a record: the trial check, the directory
\* check, analyzer.New and the call of Analyze in performAnalysis
CmdSubscriptionArrives ==
    /\ cmd = "subscription"
    /\ \E s \in Subscriptions :
          /\ sub' = s
          /\ IF TrialLimitReached(s)
             THEN /\ CmdReturn(Err("TrialLimit", <<"trial limit reached - upgrade to continue">>))
                  /\ UNCHANGED pc
             ELSE IF ~dirExists
             THEN /\ CmdReturn(Err("DirectoryMissing", <<"directory does not exist">>))
                  /\ UNCHANGED pc
             ELSE /\ cmd' = "analyzing"
                  /\ pc' = "new"
                  /\ UNCHANGED exit
    /\ UNCHANGED <<pass, arch, dirExists, installed, envChanges, invocations, returns,
                   inflight, analysis, ret, postCount, given, once>>
    /\ UNCHANGED <<mode, outputFormat, apiKey, requests, send, printed>>

\* PrintJSON, PrintSummary or nothing
Presentation(format) ==
    CASE format = "json" -> "json"
      [] format = "quiet" -> "none"
      [] OTHER -> "summary"

\* performLocalAnalysis, performHybridAnalysis and performCloudAnalysis
\* after Analyze returned, up to the request of SendAnalysis
CmdAnalyzeReturns ==
    /\ cmd = "analyzing"
    /\ pc = "done"
    /\ IF ret.err.kind # "none"
       THEN /\ CmdReturn(Errorf("analysis failed", ret.err))
            /\ UNCHANGED <<printed, send, requests>>
       ELSE /\ printed' = Presentation(outputFormat)
            /\ IF outputFormat = "json" \/ mode \in {"local", "hybrid"}
               THEN /\ CmdReturn(NoErr)
                    /\ UNCHANGED <<send, requests>>
               ELSE IF ~apiKey
               THEN /\ send' = [state |-> "returned", status |-> 0, body |-> "",
                                err |-> Err("NoAPIKey", <<"no API key found">>)]
                    /\ CmdReturn(send'.err)
                    /\ UNCHANGED requests
               ELSE /\ send' = [NoSend EXCEPT !.state = "waiting"]
                    /\ requests' = Append(requests, PostAnalysis)
                    /\ cmd' = "sending"
                    /\ UNCHANGED exit
    /\ UNCHANGED <<pipelineVars, mode, outputFormat, apiKey, sub>>

\* httpClient.Do returns an error
CmdSendFails ==
    /\ cmd = "sending"
    /\ send' = [state |-> "returned", status |-> 0, body |-> "",
                err |-> Err("Transport", <<"request failed">>)]
    /\ CmdReturn(send'.err)
    /\ UNCHANGED <<pipelineVars, mode, outputFormat, apiKey, sub, requests, printed>>

\* the response of POST /v1/analysis, the return of SendAnalysis and of
\* performCloudAnalysis
CmdSendResponds ==
    /\ cmd = "sending"
    /\ \E status \in Statuses, body \in Bodies :
          send' = [state |-> "returned", status |-> status, body |-> body,
                   err |-> IF status # 200 /\ status # 201
                           THEN StatusError(status, body) ELSE NoErr]
    /\ CmdReturn(send'.err)
    /\ UNCHANGED <<pipelineVars, mode, outputFormat, apiKey, sub, requests, printed>>

NextCmd ==
    \/ CmdGetSubscription
    \/ CmdSubscriptionFails
    \/ CmdSubscriptionArrives
    \/ CmdAnalyzeReturns
    \/ CmdSendFails
    \/ CmdSendResponds
    \/ Next

SpecCmd == InitCmd /\ [][NextCmd]_vars

Posts == { i \in 1..Len(requests) : requests[i] = PostAnalysis }

\* C14: SendAnalysis returns no error for every response status in
\* 200..299, and for every other status an error that carries the status
\* and the response body.
C14_SuccessOnEvery2xx ==
    (send.state = "returned" /\ send.status # 0) =>
        IF send.status \in 200..299
        THEN send.err.kind = "none"
        ELSE /\ send.err.kind = "ApiStatus"
             /\ send.err.status = send.status
             /\ send.err.body = send.body

\* the Report after the first n passes, from the project id, the directory
\* and the outputs of the tool alone
RECURSIVE PassesApplied(_)
PassesApplied(n) ==
    IF n = 0 THEN NewCodeAnalysis(projectID, projectDir)
    ELSE ApplyPass(n, PassesApplied(n - 1), returns[n].output)

\* C15: under the analyze command the Report is a function of the project
\* id, the directory and the outputs of the tool: during the passes it is
\* the passes applied to the outputs received so far, and the Report that
\* Analyze returns is postProcess of the four passes applied to the four
\* outputs, whatever subscription record the command received.
C15_ReportFromToolOutputsOnly ==
    cmd # "none" =>
        /\ (pc \in {"call", "wait", "post"} /\ AllSucceeded) =>
                analysis = PassesApplied(Len(returns))
        /\ (ret.returned /\ ret.report # NoReport) =>
                /\ Len(returns) = 4
                /\ ret.report = postProcess(PassesApplied(4), arch)
        /\ sub \in Subscriptions \cup {NoSubscription}

\* a Report returned to a command that received the record of a paid tier
\* at its limit with a payment overdue
C15_Witness ==
    /\ cmd = "exit"
    /\ sub.Tier = "professional" /\ sub.Status = "past_due"
    /\ sub.AnalysesUsed >= sub.AnalysesLimit
    /\ ret.report # NoReport
    /\ ret.report.EstimatedUsers = 1800

\* C16: when the invocation of a pass failed, nothing is presented and
\* SendAnalysis is not called; the command returns once Analyze has
\* returned, and it ends with exit status 1 and an error that wraps the
\* error of Analyze, with the cause of the failure and the captured output.
C16_FailedPassEndsCommand ==
    (cmd # "none" /\ returns # <<>> /\ Last(returns).status = "failed") =>
        /\ printed = "none"
        /\ send = NoSend
        /\ Posts = {}
        /\ (cmd = "analyzing" /\ pc = "done") => ENABLED CmdAnalyzeReturns
        /\ cmd \in {"analyzing", "exit"}
        /\ cmd = "exit" =>
            /\ exit.exited
            /\ exit.code = 1
            /\ exit.err.kind = "ToolInvocation"
            /\ Head(exit.err.msgs) = "analysis failed"
            /\ Tail(exit.err.msgs) = ret.err.msgs
            /\ exit.err.cause = Last(returns).cause
            /\ exit.err.output = Last(returns).captured

\* the command ended after the second pass failed with a message
C16_Witness ==
    /\ cmd = "exit"
    /\ Len(returns) = 2
    /\ returns[2].status = "failed"
    /\ exit.code = 1
    /\ exit.err.output = "Error: rate limit exceeded"

\* C17: in cloud mode, a command whose analysis returned a Report has
\* called SendAnalysis exactly once when it ends, for each output format
\* (dashboard, json, quiet); SendAnalysis is never called before Analyze
\* has returned the Report.
C17_CloudModeSendsOnce ==
    /\ (cmd = "exit" /\ mode = "cloud" /\ ret.returned /\ ret.report # NoReport) =>
            send.state = "returned"
    /\ Cardinality(Posts) <= 1
    /\ send.state # "none" => (ret.returned /\ ret.report # NoReport)

\* C18: in local mode the analyze command issues no request to the
\* CloudPork service, neither the subscription lookup nor the submission
\* of the Report.
C18_LocalModeNoRequest ==
    (cmd # "none" /\ mode = "local") => requests = <<>>

\* C21: when the resource pass ends, none of the five resource dimensions
\* of the Report (memory, CPU, DB connections, bandwidth, storage) is zero:
\* a dimension that extracts to zero has been replaced by a value computed
\* from a secondary heuristic.
C21_NoZeroDimensionAfterPass4 ==
    (pc = "text1" /\ pass = 4) =>
        /\ analysis.ResourceUsage.MemoryMB # 0
        /\ analysis.ResourceUsage.CPUCores # 0
        /\ analysis.ResourceUsage.DatabaseConns # 0
        /\ analysis.ResourceUsage.NetworkMbps # 0
        /\ analysis.ResourceUsage.StorageGB # 0

ZeroMemoryAndCPU ==
    /\ pc = "norm1"
    /\ given.ResourceUsage.MemoryMB = 0
    /\ given.ResourceUsage.CPUCores = 0

\* C22 as stated: postProcess applied to a Report whose memory and CPU are
\* zero sets the memory to the value of the complexity table (256, 512,
\* 1024 or 2048 MB) and the CPU to the value of the endpoint table (0.5,
\* 1.0, 2.0 or 4.0 cores) for the Report's complexity score and endpoint
\* count.
C22_NormalizerLooksUp ==
    ZeroMemoryAndCPU =>
        /\ analysis.ResourceUsage.MemoryMB =
                Band(MemoryBands, 256, analysis.ComplexityScore)
        /\ analysis.ResourceUsage.CPUCores = Band(CPUBands, 50, analysis.ApiEndpoints)

\* C22 amended: postProcess applied to a Report whose memory and CPU are
\* zero sets them to the lower bounds of their intervals, 128 MB and 0.1
\* cores, whatever the complexity score and the endpoint count.
C22_NormalizerRaisesToBounds ==
    ZeroMemoryAndCPU =>
        /\ analysis.ResourceUsage.MemoryMB = 128
        /\ analysis.ResourceUsage.CPUCores = 10

\* zero memory and CPU at complexity 85 and 5000 endpoints, where the tables
\* give 2048 MB and 4.0 cores
C22_Witness ==
    /\ ZeroMemoryAndCPU
    /\ given.ComplexityScore = 85
    /\ given.ApiEndpoints = 5000
    /\ analysis.ResourceUsage.MemoryMB = 128
    /\ analysis.ResourceUsage.CPUCores = 10

\* C23: the instruction of the resource pass holds the language, the
\* framework, the endpoint count and the number of background jobs written
\* by pass 1 and the complexity score written by pass 2; these are the
\* values of the Report after pass 3, which does not change them; pass 4 is
\* invoked only after passes 1 to 3 have returned successfully.
C23_PromptFromEarlierPasses ==
    Len(invocations) = 4 =>
        /\ Len(returns) >= 3
        /\ \A i \in 1..3 : returns[i].status = "ok"
        /\ LET first == PassesApplied(1)
               second == PassesApplied(2)
               third == PassesApplied(3)
               prompt == invocations[4].prompt
           IN /\ prompt.Language = first.Language
              /\ prompt.Framework = first.Framework
              /\ prompt.ApiEndpoints = first.ApiEndpoints
              /\ prompt.BackgroundJobs = Len(first.BackgroundJobs)
              /\ prompt.ComplexityScore = extractComplexity(returns[2].output.text)
              /\ prompt.ComplexityScore = second.ComplexityScore
              /\ prompt = [Language |-> third.Language, Framework |-> third.Framework,
                           ApiEndpoints |-> third.ApiEndpoints,
                           BackgroundJobs |-> Len(third.BackgroundJobs),
                           ComplexityScore |-> third.ComplexityScore]

\* the instruction for a Go/Gin project with 12 endpoints, one job and a
\* complexity score of 72
C23_Witness ==
    /\ Len(invocations) = 4
    /\ invocations[4].prompt =
            [Language |-> "Go", Framework |-> "Gin", ApiEndpoints |-> 12,
             BackgroundJobs |-> 1, ComplexityScore |-> 72]

\* the fields of the Report a pass may write; of Performance pass 2 owns
\* the N+1 flag and pass 3 the large-payload flag
Owned(p) ==
    CASE p = 1 -> {"Language", "Framework", "Dependencies", "ApiEndpoints",
                   "BackgroundJobs", "FileUploads"}
      [] p = 2 -> {"DatabaseCalls", "ComplexityScore", "CacheUsage", "Performance"}
      [] p = 3 -> {"ScalingBottlenecks", "Performance"}
      [] p = 4 -> {"ResourceUsage"}
      [] OTHER -> {}

\* C24: a step of a pass changes only the fields the pass owns (pass 1:
\* language, framework, dependencies, api_endpoints, background_jobs,
\* file_uploads; pass 2: database_calls, complexity_score, cache_usage, the
\* N+1 flag; pass 3: scaling_bottlenecks, the large-payload flag; pass 4:
\* the resource estimate); project id and directory never change once the
\* Report is created; estimated_users is 0 until postProcess sets it.
C24_PassFrames ==
    [][ (analysis # NoReport /\ analysis' # NoReport) =>
            /\ analysis'.ProjectID = analysis.ProjectID
            /\ analysis'.Directory = analysis.Directory
            /\ pc' \in {"call", "wait", "post"} => analysis'.EstimatedUsers = 0
            /\ pc = "wait" =>
                /\ \A f \in (DOMAIN analysis) \ Owned(pass) : analysis'[f] = analysis[f]
                /\ pass # 2 =>
                    analysis'.Performance.HasNPlusOneQuery =
                        analysis.Performance.HasNPlusOneQuery
                /\ pass # 3 =>
                    analysis'.Performance.HasLargePayloads =
                        analysis.Performance.HasLargePayloads
      ]_vars

\* the four passes have each written their fields
C24_Witness ==
    /\ pc = "post"
    /\ analysis.Language = "Go"
    /\ analysis.ComplexityScore = 72
    /\ analysis.Performance.HasNPlusOneQuery = FALSE
    /\ analysis.Performance.HasLargePayloads
    /\ analysis.ScalingBottlenecks # <<>>
    /\ analysis.ResourceUsage.MemoryMB = 512
    /\ analysis.EstimatedUsers = 0

\* C25: postProcess is not applied before the four passes have returned
\* successfully; a Report that Analyze returned has been through
\* postProcess exactly once, applied to the Report as pass 4 left it; from
\* then on the Report keeps the value postProcess gave it, while it is
\* printed as JSON or as a summary and while it is sent.
C25_NormalizedOnceThenImmutable ==
    cmd # "none" =>
        /\ postCount > 0 => (Len(returns) = 4 /\ AllSucceeded /\ ret.returned)
        /\ (ret.returned /\ ret.report # NoReport) =>
            /\ postCount = 1
            /\ given = PassesApplied(4)
            /\ once = postProcess(given, arch)
            /\ ret.report = once
            /\ analysis = once
        /\ (printed # "none" \/ send.state # "none") =>
            (ret.returned /\ ret.report # NoReport /\ analysis = once)

\* the summary was printed and the Report was sent and accepted
C25_Witness ==
    /\ cmd = "exit"
    /\ printed = "summary"
    /\ send.state = "returned" /\ send.status = 200
    /\ postCount = 1
    /\ analysis = once
    /\ analysis.EstimatedUsers = 1800

\* the rules of a line
DatabaseLine(line) ==
    /\ Contains(line, "database")
    /\ \E word \in {"slow", "bottleneck", "limit"} : Contains(line, word)
MemoryLine(line) == Contains(line, "memory") /\ Contains(line, "leak")

\* the label of a text by priority
SeverityOf(text) ==
    LET i == FirstIndex(<<"critical", "high", "medium">>, text)
    IN IF i = 0 THEN "low" ELSE <<"critical", "high", "medium">>[i]

\* the number of records the lines before line i yield
RecordsBefore(lines, i) ==
    Cardinality({ j \in 1..(i - 1) : DatabaseLine(lines[j]) })
    + Cardinality({ j \in 1..(i - 1) : MemoryLine(lines[j]) })

\* C26: extractBottlenecks returns, in line order, for each non-blank line
\* a database Bottleneck iff the line contains "database" and one of
\* "slow", "bottleneck", "limit", with the severity of that line, then a
\* memory Bottleneck of severity "high" iff the line contains "memory" and
\* "leak"; a line matching both rules yields both records, a line matching
\* neither yields none; no record has another category.
C26_BottlenecksPerLine ==
    (pc = "text1" /\ pass = 3) =>
        LET lines == Split(returns[1].output.text)
            found == analysis.ScalingBottlenecks
        IN /\ Len(found) = RecordsBefore(lines, Len(lines) + 1)
           /\ \A k \in 1..Len(found) : found[k].Type \in {"database", "memory"}
           /\ \A i \in 1..Len(lines) :
                /\ DatabaseLine(lines[i]) =>
                    LET record == found[RecordsBefore(lines, i) + 1]
                    IN /\ record.Type = "database"
                       /\ record.Description = lines[i]
                       /\ record.Severity = SeverityOf(lines[i])
                /\ MemoryLine(lines[i]) =>
                    LET record == found[RecordsBefore(lines, i + 1)]
                    IN /\ record.Type = "memory"
                       /\ record.Description = lines[i]
                       /\ record.Severity = "high"

\* one line matching both rules: a database record of severity "medium",
\* then a memory record
C26_Witness ==
    /\ pc = "text1" /\ pass = 3
    /\ Len(Split(returns[1].output.text)) = 1
    /\ Len(analysis.ScalingBottlenecks) = 2
    /\ analysis.ScalingBottlenecks[1].Type = "database"
    /\ analysis.ScalingBottlenecks[1].Severity = "medium"
    /\ analysis.ScalingBottlenecks[2].Type = "memory"
    /\ analysis.ScalingBottlenecks[2].Severity = "high"
    /\ analysis.ScalingBottlenecks[2].Description = analysis.ScalingBottlenecks[1].Description

\* C27: extractSeverity returns "critical" when the lower-cased text
\* contains "critical", otherwise "high" when it contains "high", otherwise
\* "medium" when it contains "medium", otherwise "low": the priority
\* decides, not the order in the text, and the result is one of the four
\* labels.
C27_SeverityByPriority ==
    (pc = "text1" /\ pass = 3) =>
        \A k \in 1..Len(analysis.ScalingBottlenecks) :
            LET record == analysis.ScalingBottlenecks[k]
                line == record.Description
            IN /\ record.Severity \in {"critical", "high", "medium", "low"}
               /\ record.Type = "database" =>
                    record.Severity =
                        (IF Contains(line, "critical") THEN "critical"
                         ELSE IF Contains(line, "high") THEN "high"
                         ELSE IF Contains(line, "medium") THEN "medium"
                         ELSE "low")

\* "medium" and "High" come before "CRITICAL" in the line
C27_Witness ==
    /\ pc = "text1" /\ pass = 3
    /\ returns[1].output.text =
            <<W("database"), W("slow"), W("medium"), W("High"), W("CRITICAL")>>
    /\ Len(analysis.ScalingBottlenecks) = 1
    /\ analysis.ScalingBottlenecks[1].Severity = "critical"

\* the entry occurs in the lower-cased text
Occurs(text, entry) ==
    CASE entry = "memory cache" -> ContainsPair(text, "memory", "cache")
      [] entry = "in-process cache" -> ContainsPair(text, "in-process", "cache")
      [] entry = "browser cache" -> ContainsPair(text, "browser", "cache")
      [] entry = "CDN" -> Contains(text, "cdn")
      [] OTHER -> Contains(text, entry)

\* list holds exactly the entries of vocabulary that occur in the text,
\* each once, in the order of vocabulary
SubsetInOrder(list, vocabulary, text) ==
    /\ \A k \in 1..Len(list) : \E i \in 1..Len(vocabulary) : list[k] = vocabulary[i]
    /\ \A i \in 1..Len(vocabulary) :
            Occurs(text, vocabulary[i]) <=> \E k \in 1..Len(list) : list[k] = vocabulary[i]
    /\ \A k, m \in 1..Len(list) :
            k < m => \E i, j \in 1..Len(vocabulary) :
                        i < j /\ list[k] = vocabulary[i] /\ list[m] = vocabulary[j]

\* C28 as stated: extractCacheUsage returns exactly the entries of (redis,
\* memcached, in-process cache, CDN, browser cache) that occur in the
\* lower-cased text, each at most once, in the order of this vocabulary,
\* and the empty list when none occurs.
C28_CacheVocabularyAsStated ==
    (pc = "text1" /\ pass = 2) =>
        SubsetInOrder(analysis.CacheUsage,
                      <<"redis", "memcached", "in-process cache", "CDN", "browser cache">>,
                      returns[1].output.text)

\* C28 amended: the vocabulary is (redis, memcached, memory cache, cdn,
\* browser cache).
C28_CacheVocabularyOfCode ==
    (pc = "text1" /\ pass = 2) =>
        SubsetInOrder(analysis.CacheUsage,
                      <<"redis", "memcached", "memory cache", "cdn", "browser cache">>,
                      returns[1].output.text)

\* "CDN memory cache": two entries, in the order of the vocabulary
C28_Witness ==
    /\ pc = "text1" /\ pass = 2
    /\ returns[1].output.text = <<W("CDN"), W("memory"), W("cache")>>
    /\ analysis.CacheUsage = <<"memory cache", "cdn">>

\* C29: no analysis work starts before the subscription record has been
\* received; with a trial whose analyses used have reached the limit the
\* command returns an error and Analyze, the tool and SendAnalysis are
\* never called; when the lookup fails the command returns an error before
\* any pass; for another tier the counters do not stop the run.
C29_SubscriptionGate ==
    cmd # "none" =>
        /\ (pc # "idle" \/ invocations # <<>> \/ send # NoSend) =>
                (sub \in Subscriptions /\ Head(requests) = GetSubscription)
        /\ (sub.Tier = "trial" /\ sub.AnalysesUsed >= sub.AnalysesLimit) =>
            /\ cmd = "exit"
            /\ exit.code = 1
            /\ exit.err.kind = "TrialLimit"
            /\ pc = "idle" /\ invocations = <<>> /\ analysis = NoReport
            /\ send = NoSend /\ Posts = {}
        /\ exit.err.kind = "Subscription" =>
            /\ exit.code = 1
            /\ sub = NoSubscription
            /\ pc = "idle" /\ invocations = <<>>
            /\ send = NoSend /\ Posts = {}
        /\ (sub \in Subscriptions /\ sub.Tier # "trial") =>
            /\ exit.err.kind # "TrialLimit"
            /\ (cmd = "exit" /\ pc = "idle") => exit.err.kind = "DirectoryMissing"

\* the command stopped at the used-up trial after the lookup alone
C29_Witness ==
    /\ cmd = "exit"
    /\ sub.Tier = "trial" /\ sub.AnalysesUsed = 1 /\ sub.AnalysesLimit = 1
    /\ exit.err.kind = "TrialLimit"
    /\ requests = <<GetSubscription>>
    /\ pc = "idle"

\* Analyze with every step of its sequential code taken eventually and
\* every invocation of the tool returning, with or without an error
SpecLive ==
    /\ Init
    /\ [][Next]_vars
    /\ WF_vars(Preflight)
    /\ WF_vars(ClientStart)
    /\ WF_vars(Invoke)
    /\ WF_vars(ToolSucceeds \/ ToolFails)
    /\ WF_vars(PostProcessReturn)

\* C30: provided every invocation of the tool returns, Analyze reaches a
\* final state in which it has returned either a Report or an error, never
\* both and never neither; it makes at most four invocations, no pass
\* twice.
C30_Terminates ==
    /\ <>(pc = "done")
    /\ [](pc = "done" =>
            /\ ret.returned
            /\ (ret.report # NoReport) # (ret.err.kind # "none")
            /\ inflight = 0)
    /\ [](/\ Len(invocations) <= 4
          /\ \A i, j \in 1..Len(invocations) :
                invocations[i].pass = invocations[j].pass => i = j)

\* a final state with a Report, no error and no tool process left
C30_Witness ==
    /\ pc = "done"
    /\ ret.returned
    /\ ret.report # NoReport
    /\ ret.err.kind = "none"
    /\ Len(returns) = 4
    /\ inflight = 0

====
